---- MODULE Spec2Model ----
(***************************************************************************)
(* Weather caching proxy: the cache-entry lifecycle and freshness decision *)
(* of the three server variants of the repository                          *)
(*   "app"     src/app/api/weather/route.ts     (Firestore cache)          *)
(*   "pages"   src/pages/api/weather/[city].ts  (in-memory Map, retries)   *)
(*   "express" src/server/server.js             (in-memory object, expiry) *)
(* Strings are sequences of one-character strings.  A deployment runs one  *)
(* variant; requests are handled concurrently and suspend at each await.   *)
(***************************************************************************)
EXTENDS Integers, Sequences, FiniteSets, TLC

VARIABLES variant, envOk, secretToken, clock, firestoreInstance,
          firestoreDocs, weatherCache, req, started, rawS, rawT, page

vars == <<variant, envOk, secretToken, clock, firestoreInstance,
          firestoreDocs, weatherCache, req, started, rawS, rawT, page>>

(* ------------------------------ bounds --------------------------------- *)
\* number of requests that arrive in one behaviour
MaxStarts == 2
\* longest raw string explored for the key computation
MaxLen == 2
\* whole cache lifetimes the clock of the expiry comparison runs through
MaxPeriods == 2
\* network requests of the page in flight at the same time
MaxCalls == 2

(* --------------------------- program constants -------------------------- *)
CACHE_DURATION_MS == 5 * 60 * 1000
CACHE_TTL_SECONDS == 300
maxRetries == 3

(* ------------------------------ strings --------------------------------- *)
Whitespace == {" ", "\t"}
Chars == {" ", "\t", "a", "A", "b"}

\* String.prototype.toLowerCase on one character
LowerChar(c) == IF c = "A" THEN "a" ELSE c

ToLowerCase(s) == [i \in 1..Len(s) |-> LowerChar(s[i])]

RECURSIVE TrimStart(_)
TrimStart(s) ==
    IF s # <<>> /\ Head(s) \in Whitespace THEN TrimStart(Tail(s)) ELSE s

RECURSIVE TrimEnd(_)
TrimEnd(s) ==
    IF s # <<>> /\ s[Len(s)] \in Whitespace
    THEN TrimEnd(SubSeq(s, 1, Len(s) - 1)) ELSE s

\* String.prototype.trim
Trim(s) == TrimEnd(TrimStart(s))

\* a key computation that forgets trailing whitespace
CacheKeyTrimStartOnly(city) == TrimStart(ToLowerCase(city))

\* const cacheKey = city.toLowerCase().trim();
CacheKey(city) == Trim(ToLowerCase(city))

(* ------------------------------- data ----------------------------------- *)
\* raw city texts a client sends (empty = missing/empty parameter)
RawCities == {<<>>, <<" ">>, <<" ", "A">>, <<"b">>}
Keys == {CacheKey(c) : c \in RawCities}

\* X-API-Key header values ("none": the request has no such header)
ClientKeys == {"tok", "bad", "none"}

\* process.env.CLIENT_TOKEN ("none": the variable is not set)
CLIENT_TOKEN == secretToken

\* instants the wall clock shows: the start, and the last fresh and the
\* first stale instant of an entry stored at the start
Times == {0, CACHE_DURATION_MS - 1, CACHE_DURATION_MS}

NoEntry == [absent |-> TRUE]
NoData == [none |-> TRUE]
NoGeo == [none |-> TRUE]

\* geocoder first match for a non-blank query
GeoResults == {[name |-> <<"A">>, country |-> "GB"]}

\* current-conditions payloads (temperature in tenths of a degree)
Payloads == {[temperature_2m |-> 184, weather_code |-> 0],
             [temperature_2m |-> 215, weather_code |-> 4]}

\* Math.round on a value given in tenths (halves round towards +infinity)
MathRound(tenths) == (tenths + 5) \div 10

WEATHER_CODES == {0, 1, 2, 3, 45, 48, 51, 53, 55, 61, 63, 65, 71, 73, 75,
                  95, 96, 99}

WEATHER_CODE_MAP(code) ==
    CASE code = 0 -> "Clear Sky"
      [] code = 1 -> "Mainly Clear"
      [] code = 2 -> "Partly Cloudy"
      [] code = 3 -> "Overcast"
      [] code = 45 -> "Fog"
      [] code = 48 -> "Depositing Rime Fog"
      [] code = 51 -> "Drizzle, Light"
      [] code = 53 -> "Drizzle, Moderate"
      [] code = 55 -> "Drizzle, Dense"
      [] code = 61 -> "Rain, Slight"
      [] code = 63 -> "Rain, Moderate"
      [] code = 65 -> "Rain, Heavy"
      [] code = 71 -> "Snow, Slight"
      [] code = 73 -> "Snow, Moderate"
      [] code = 75 -> "Snow, Heavy"
      [] code = 95 -> "Thunderstorm"
      [] code = 96 -> "Thunderstorm with Hail"
      [] code = 99 -> "Thunderstorm with Heavy Hail"

\* a lookup without the fallback for codes that are not in the table
DescriptionNoFallback(code) ==
    IF code \in WEATHER_CODES THEN WEATHER_CODE_MAP(code)
    ELSE "undefined"

\* WEATHER_CODE_MAP[current.weather_code] || 'Unknown Condition'
Description(code) ==
    IF code \in WEATHER_CODES THEN WEATHER_CODE_MAP(code)
    ELSE "Unknown Condition"

\* TransformedData of route.ts without its source field (the fields that
\* are rounded the same way are represented by temperature)
TransformedData(geo, current) ==
    [cityName |-> geo.name,
     country |-> geo.country,
     temperature |-> MathRound(current.temperature_2m),
     description |-> Description(current.weather_code)]

\* a stored timestamp is a number or a Firestore Timestamp object
NumberTs(ms) == [kind |-> "number", ms |-> ms]

isFirestoreTimestamp(value) == value.kind = "Timestamp"

\* a conversion that falls back to the current time
getTimestampInMsFallbackNow(timestamp) ==
    IF isFirestoreTimestamp(timestamp) THEN timestamp.ms
    ELSE IF timestamp.kind = "number" THEN timestamp.ms
    ELSE clock

getTimestampInMs(timestamp) ==
    IF isFirestoreTimestamp(timestamp) THEN timestamp.ms
    ELSE IF timestamp.kind = "number" THEN timestamp.ms
    ELSE 0

\* a freshness test that expires entries one millisecond early
IsFreshEarly(currentTime, timestampMs) ==
    (currentTime - timestampMs) < CACHE_DURATION_MS - 1

\* a freshness test that still accepts an entry aged exactly one TTL
IsFreshInclusive(currentTime, timestampMs) ==
    (currentTime - timestampMs) <= CACHE_DURATION_MS

\* (currentTime - timestampMs) < CACHE_DURATION_MS
IsFresh(currentTime, timestampMs) ==
    (currentTime - timestampMs) < CACHE_DURATION_MS

\* a copy of the response that keeps its source field
dataWithSource(data) ==
    [cityName |-> data.cityName,
     country |-> data.country,
     temperature |-> data.temperature,
     description |-> data.description,
     source |-> "api"]

\* const dataWithoutSource: Omit<WeatherData, 'source'> = { ... }: the
\* fields of TransformedData are copied one by one, source is not
dataWithoutSource(data) ==
    [cityName |-> data.cityName,
     country |-> data.country,
     temperature |-> data.temperature,
     description |-> data.description]

\* an entry stamped with the time of the write
DataToCacheAtWrite(data, currentTime) ==
    [data |-> data, timestamp |-> [kind |-> "number", ms |-> clock]]

\* const dataToCache: CacheEntry = { data: dataWithoutSource, timestamp: currentTime }
DataToCache(data, currentTime) ==
    [data |-> dataWithoutSource(data), timestamp |-> NumberTs(currentTime)]

(* ----------------------------- requests --------------------------------- *)
\* two requests are in flight at a time
Req == {"r1", "r2"}

IdleReq ==
    [pc |-> "idle", city |-> <<>>, cacheKey |-> <<>>, currentTime |-> 0,
     db |-> FALSE, seen |-> "none", readErr |-> FALSE, query |-> <<>>,
     geo |-> NoGeo,
     i |-> 0, wait |-> 0, putErr |-> FALSE,
     status |-> 0, source |-> "none", data |-> NoData, error |-> "none",
     gets |-> 0, geoCalls |-> 0, wxCalls |-> 0, puts |-> 0, pred |-> {}]

\* the handler returns: its locals are gone; the response remains, with
\* the request it answers and the calls that were made for it
Returned(q, status, source, data) ==
    [IdleReq EXCEPT !.pc = "done", !.city = q.city, !.cacheKey = q.cacheKey,
                    !.currentTime = q.currentTime, !.status = status,
                    !.source = source, !.data = data, !.gets = q.gets,
                    !.geoCalls = q.geoCalls, !.wxCalls = q.wxCalls,
                    !.puts = q.puts, !.putErr = q.putErr, !.pred = q.pred]

\* the error text each handler sends with a status (server.js sends it as
\* detail, and chooses the text of its 500 in the catch block)
ErrorText(status) ==
    IF variant = "app"
    THEN CASE status = 401 -> "Unauthorized: Invalid API Key"
           [] status = 400 -> "Bad Request: Missing city parameter"
           [] status = 404 -> "Could not find coordinates for city"
           [] status = 502 -> "Bad Gateway: Failed to fetch weather data"
           [] OTHER -> "Internal Server Error"
    ELSE IF variant = "pages"
    THEN CASE status = 405 -> "Method Not Allowed"
           [] status = 401 -> "Unauthorized: Invalid API Key"
           [] status = 400 ->
                "Bad Request: Missing or invalid city parameter"
           [] status = 502 ->
                "Bad Gateway: Failed to fetch data from external API"
           [] OTHER -> "Internal Server Error"
    ELSE CASE status = 401 ->
                "Unauthorized: Missing or invalid X-API-Key headers."
           [] OTHER -> "Failed to fetch weather data."

\* NextResponse.json({ error: ... }, { status })
Failed(q, status) ==
    [Returned(q, status, "none", NoData) EXCEPT !.error = ErrorText(status)]

\* NextResponse.json({ ...data, source }, { status: 200 })
Answered(q, data, source) == Returned(q, 200, source, data)

\* requests that have been answered when a new one arrives
DoneNow == {p \in Req : req[p].pc = "done"}

\* a request as it arrives: its input and the requests answered before it
Arrived(city) == [IdleReq EXCEPT !.city = city, !.pred = DoneNow]

\* the server takes the lowest free slot for an arriving request
FreeSlot(r) ==
    /\ req[r].pc = "idle"
    /\ (r = "r2" => req["r1"].pc # "idle")

\* recycling a slot forgets it as a predecessor
Forget(r) == [p \in Req |-> [req[p] EXCEPT !.pred = @ \ {r}]]

(* --------------------- route.ts: GET (App Router) ----------------------- *)
\* getFirestoreInstance() returns a non-null instance
getFirestoreInstance(initThrows) ==
    firestoreInstance \/ (envOk /\ ~initThrows)

\* encodeURIComponent: whitespace is percent-encoded, letters are kept
EncodeChar(c) == IF c = " " THEN "%20" ELSE IF c = "\t" THEN "%09" ELSE c

encodeURIComponent(str) == [i \in 1..Len(str) |-> EncodeChar(str[i])]

\* the geocoding request is issued: ...?name=${encodeURIComponent(city)}
FetchGeo(q) ==
    [q EXCEPT !.pc = "geo", !.geoCalls = @ + 1,
              !.query = encodeURIComponent(q.city)]

\* clientKey !== PUBLIC_TOKEN_FOR_VALIDATION: headers.get gives null for a
\* missing header, and null differs from every string and from undefined
AppKeyMismatch(clientKey) ==
    clientKey = "none" \/ clientKey # CLIENT_TOKEN

\* lines 132-160: authentication, parameter check, key, clock, store
\* handle, and the first awaited call (getDoc, or the geocoding fetch when
\* there is no store or doc() rejects the empty document id)
AppStart(r, clientKey, city, initThrows) ==
    /\ variant = "app"
    /\ FreeSlot(r)
    /\ started < MaxStarts
    /\ started' = started + 1
    /\ LET q0 == Arrived(city)
           db == getFirestoreInstance(initThrows)
           q1 == [q0 EXCEPT !.cacheKey = CacheKey(city),
                            !.currentTime = clock, !.db = db]
       IN  IF AppKeyMismatch(clientKey)
           THEN /\ req' = [req EXCEPT ![r] = Failed(q0, 401)]
                /\ UNCHANGED firestoreInstance
           ELSE IF city = <<>>
           THEN /\ req' = [req EXCEPT ![r] = Failed(q0, 400)]
                /\ UNCHANGED firestoreInstance
           ELSE /\ firestoreInstance' = db
                /\ req' = [req EXCEPT ![r] =
                      IF ~db THEN FetchGeo([q1 EXCEPT !.pred = {}])
                      ELSE IF q1.cacheKey = <<>>
                      THEN FetchGeo([q1 EXCEPT !.readErr = TRUE,
                                               !.pred = {}])
                      ELSE [q1 EXCEPT !.pc = "getDoc", !.gets = @ + 1]]
    /\ UNCHANGED <<variant, envOk, secretToken, clock, firestoreDocs,
                   weatherCache, rawS, rawT, page>>

\* a lookup whose result is never used
AfterGetDocNoCache(q, throws, cacheDoc) ==
    IF throws THEN FetchGeo([q EXCEPT !.readErr = TRUE, !.pred = {}])
    ELSE FetchGeo([q EXCEPT !.pred = {}, !.seen =
                      IF cacheDoc = NoEntry THEN "absent" ELSE "stale"])

\* a lookup whose failure fails the request
AfterGetDocFailOnError(q, throws, cacheDoc) ==
    IF throws THEN Failed(q, 500)
    ELSE IF cacheDoc # NoEntry
            /\ IsFresh(q.currentTime, getTimestampInMs(cacheDoc.timestamp))
    THEN Answered(q, cacheDoc.data, "cache")
    ELSE FetchGeo([q EXCEPT !.pred = {}, !.seen =
                      IF cacheDoc = NoEntry THEN "absent" ELSE "stale"])

\* lines 160-178: getDoc settles; a fresh entry is answered from the cache,
\* anything else (absent, expired, read error) goes on to the geocoder
AfterGetDoc(q, throws, cacheDoc) ==
    IF throws THEN FetchGeo([q EXCEPT !.readErr = TRUE, !.pred = {}])
    ELSE IF cacheDoc # NoEntry
            /\ IsFresh(q.currentTime, getTimestampInMs(cacheDoc.timestamp))
    THEN Answered(q, cacheDoc.data, "cache")
    ELSE FetchGeo([q EXCEPT !.pred = {}, !.seen =
                      IF cacheDoc = NoEntry THEN "absent" ELSE "stale"])

AppGetDocReturn(r, throws) ==
    /\ variant = "app"
    /\ req[r].pc = "getDoc"
    /\ req' = [req EXCEPT ![r] =
                 AfterGetDoc(req[r], throws, firestoreDocs[req[r].cacheKey])]
    /\ UNCHANGED <<variant, envOk, secretToken, clock, firestoreInstance,
                   firestoreDocs, weatherCache, started, rawS, rawT, page>>

\* what the geocoder can answer to a query
GeoOutcomes(query) ==
    {[kind |-> "throw"], [kind |-> "none"]}
    \cup (IF \A i \in 1..Len(query) : query[i] \in {"%20", "%09"} THEN {}
          ELSE {[kind |-> "ok", result |-> g] : g \in GeoResults})

\* a geocoding step that goes on to the conditions call without a match
AfterGeoNoMatchGoesOn(q, out) ==
    IF out.kind = "throw" THEN Failed(q, 500)
    ELSE [q EXCEPT !.pc = "weather", !.wxCalls = @ + 1,
                   !.geo = IF out.kind = "none"
                           THEN [name |-> q.city, country |-> "GB"]
                           ELSE out.result]

\* a geocoding step that falls back to the expired entry on failure
AfterGeoStaleFallback(q, out) ==
    IF out.kind # "ok" /\ q.seen = "stale"
    THEN Answered(q, firestoreDocs[q.cacheKey].data, "cache")
    ELSE IF out.kind = "throw" THEN Failed(q, 500)
    ELSE IF out.kind = "none" THEN Failed(q, 404)
    ELSE [q EXCEPT !.pc = "weather", !.geo = out.result, !.wxCalls = @ + 1]

\* lines 185-214: the geocoding fetch settles
AfterGeo(q, out) ==
    IF out.kind = "throw" THEN Failed(q, 500)
    ELSE IF out.kind = "none" THEN Failed(q, 404)
    ELSE [q EXCEPT !.pc = "weather", !.geo = out.result, !.wxCalls = @ + 1]

AppGeoReturn(r, out) ==
    /\ variant = "app"
    /\ req[r].pc = "geo"
    /\ req' = [req EXCEPT ![r] = AfterGeo(req[r], out)]
    /\ UNCHANGED <<variant, envOk, secretToken, clock, firestoreInstance,
                   firestoreDocs, weatherCache, started, rawS, rawT, page>>

\* what the conditions call can answer: a rejected fetch, a non-success
\* status, a body without current/daily, or a payload
WeatherOutcomes ==
    {[kind |-> "throw"], [kind |-> "notok"], [kind |-> "malformed"]}
    \cup {[kind |-> "ok", current |-> p] : p \in Payloads}

\* lines 214-279: the conditions fetch settles
AfterWeather(q, out) ==
    IF out.kind = "throw" THEN Failed(q, 500)
    ELSE IF out.kind = "notok" THEN Failed(q, 502)
    ELSE IF out.kind = "malformed" THEN Failed(q, 500)
    ELSE LET data == TransformedData(q.geo, out.current)
         IN  IF q.db /\ q.cacheKey # <<>>
             THEN [q EXCEPT !.pc = "setDoc", !.data = data, !.puts = @ + 1]
             ELSE Answered(q, data, "api")

AppWeatherReturn(r, out) ==
    /\ variant = "app"
    /\ req[r].pc = "weather"
    /\ req' = [req EXCEPT ![r] = AfterWeather(req[r], out)]
    /\ UNCHANGED <<variant, envOk, secretToken, clock, firestoreInstance,
                   firestoreDocs, weatherCache, started, rawS, rawT, page>>

\* a write whose failure fails the request
AfterSetDocFailOnError(q, throws) ==
    IF throws THEN Failed([q EXCEPT !.putErr = TRUE], 500)
    ELSE Answered(q, q.data, "api")

\* lines 279-286: setDoc settles; a write error is logged and ignored
AfterSetDoc(q, throws) ==
    Answered([q EXCEPT !.putErr = throws], q.data, "api")

\* a write whose failure removes the entry of the key
AppSetDocReturnDropOnError(r, throws) ==
    /\ variant = "app"
    /\ req[r].pc = "setDoc"
    /\ firestoreDocs' =
         [firestoreDocs EXCEPT ![req[r].cacheKey] =
             IF throws THEN NoEntry
             ELSE DataToCache(req[r].data, req[r].currentTime)]
    /\ req' = [req EXCEPT ![r] = AfterSetDoc(req[r], throws)]
    /\ UNCHANGED <<variant, envOk, secretToken, clock, firestoreInstance,
                   weatherCache, started, rawS, rawT, page>>

AppSetDocReturn(r, throws) ==
    /\ variant = "app"
    /\ req[r].pc = "setDoc"
    /\ firestoreDocs' =
         IF throws THEN firestoreDocs
         ELSE [firestoreDocs EXCEPT ![req[r].cacheKey] =
                  DataToCache(req[r].data, req[r].currentTime)]
    /\ req' = [req EXCEPT ![r] = AfterSetDoc(req[r], throws)]
    /\ UNCHANGED <<variant, envOk, secretToken, clock, firestoreInstance,
                   weatherCache, started, rawS, rawT, page>>

(* ---------------- pages/api/weather/[city].ts: handler ------------------ *)
Methods == {"GET", "POST"}

\* process.env.CLIENT_SECRET_TOKEN ("none": the variable is not set)
CLIENT_SECRET_TOKEN == secretToken

\* bodies of the external API: location.name, current.temperature,
\* current.condition.text
ExternalBodies == {[name |-> <<"A">>, temperature |-> 18, text |-> "Sunny"],
                   [name |-> <<"A">>, temperature |-> 21, text |-> "Rain"]}

\* what one fetch attempt can give: a rejected promise, a 4xx or 5xx
\* status, a 2xx body that lacks location/current, or a 2xx body
FetchOutcomes ==
    {[kind |-> "throw"], [kind |-> "4xx"], [kind |-> "5xx"],
     [kind |-> "malformed"]}
    \cup {[kind |-> "ok", body |-> b] : b \in ExternalBodies}

\* lines 99-105
PagesTransformedData(weatherData) ==
    [city |-> weatherData.name,
     temperature |-> weatherData.temperature,
     description |-> weatherData.text]

\* weatherCache.set(cacheKey, { data: TransformedData, timestamp: currentTime })
PagesCacheEntry(data, currentTime) ==
    [data |-> data, timestamp |-> currentTime]

\* a lookup that serves whatever entry the cache holds
PagesFreshAnyAge(cachedData, currentTime) ==
    cachedData # NoEntry

\* cachedData && (currentTime - cachedData.timestamp) < CACHE_DURATION_MS
PagesFresh(cachedData, currentTime) ==
    /\ cachedData # NoEntry
    /\ (currentTime - cachedData.timestamp) < CACHE_DURATION_MS

\* apiResponse = await fetch(fetchUrl) is issued for attempt q.i
FetchExternal(q) ==
    [q EXCEPT !.pc = "fetch", !.wxCalls = @ + 1,
              !.query = encodeURIComponent(q.city)]

\* lines 30-74: method, authentication, configuration and parameter
\* checks, the synchronous cache lookup, and the first fetch attempt
PagesAccept(q0, method, clientKey) ==
    IF method # "GET" THEN Failed(q0, 405)
    ELSE IF clientKey # CLIENT_SECRET_TOKEN THEN Failed(q0, 401)
    ELSE IF ~envOk THEN Failed(q0, 500)
    ELSE IF q0.city = <<>> THEN Failed(q0, 400)
    ELSE LET q1 == [q0 EXCEPT !.cacheKey = CacheKey(q0.city),
                              !.currentTime = clock, !.gets = 1]
             cachedData == weatherCache[q1.cacheKey]
         IN  IF PagesFresh(cachedData, q1.currentTime)
             THEN Answered(q1, cachedData.data, "cache")
             ELSE FetchExternal([q1 EXCEPT !.pred = {}, !.seen =
                     IF cachedData = NoEntry THEN "absent" ELSE "stale"])

\* a handler whose cache hit restamps the entry with the time of the hit
PagesStartRefreshing(r, method, clientKey, city) ==
    /\ variant = "pages"
    /\ FreeSlot(r)
    /\ started < MaxStarts
    /\ started' = started + 1
    /\ req' = [req EXCEPT ![r] =
                 PagesAccept(Arrived(city), method, clientKey)]
    /\ weatherCache' =
         IF req'[r].source = "cache"
         THEN [weatherCache EXCEPT ![req'[r].cacheKey] =
                  PagesCacheEntry(@.data, clock)]
         ELSE weatherCache
    /\ UNCHANGED <<variant, envOk, secretToken, clock, firestoreInstance,
                   firestoreDocs, rawS, rawT, page>>

PagesStart(r, method, clientKey, city) ==
    /\ variant = "pages"
    /\ FreeSlot(r)
    /\ started < MaxStarts
    /\ started' = started + 1
    /\ req' = [req EXCEPT ![r] =
                 PagesAccept(Arrived(city), method, clientKey)]
    /\ UNCHANGED <<variant, envOk, secretToken, clock, firestoreInstance,
                   firestoreDocs, weatherCache, rawS, rawT, page>>

\* Math.pow(2, i) * 1000
BackoffMs(i) == (2 ^ i) * 1000

\* a loop that reissues the fetch without advancing its counter
NextAttemptNoAdvance(q) ==
    [q EXCEPT !.pc = "fetch", !.wait = 0]

\* a loop that makes one attempt more than maxRetries
NextAttemptOneMore(q) ==
    IF q.i < maxRetries
    THEN FetchExternal([q EXCEPT !.i = @ + 1, !.wait = 0])
    ELSE Failed(q, 502)

\* the for loop goes to its next iteration, or ends without a usable
\* response (line 89: 502)
NextAttempt(q) ==
    IF q.i + 1 < maxRetries
    THEN FetchExternal([q EXCEPT !.i = @ + 1, !.wait = 0])
    ELSE Failed(q, 502)

\* lines 74-110: one fetch attempt settles
AfterFetch(q, out) ==
    IF out.kind = "throw"
    THEN [q EXCEPT !.pc = "backoff", !.wait = BackoffMs(q.i)]
    ELSE IF out.kind = "5xx" THEN NextAttempt(q)
    ELSE IF out.kind = "4xx" THEN Failed(q, 502)
    ELSE IF out.kind = "malformed" THEN Failed(q, 500)
    ELSE Answered([q EXCEPT !.puts = @ + 1],
                  PagesTransformedData(out.body), "api")

\* a cache write that updates the record of an existing entry in place
CacheAfterFetchMerge(q, out) ==
    IF out.kind = "ok"
    THEN [weatherCache EXCEPT ![q.cacheKey] =
             PagesCacheEntry(PagesTransformedData(out.body),
                             IF @ = NoEntry THEN q.currentTime
                             ELSE @.timestamp)]
    ELSE weatherCache

\* a cache write that empties the rest of the cache
CacheAfterFetchFlushOthers(q, out) ==
    IF out.kind = "ok"
    THEN [k \in Keys |->
             IF k = q.cacheKey
             THEN PagesCacheEntry(PagesTransformedData(out.body),
                                  q.currentTime)
             ELSE NoEntry]
    ELSE weatherCache

\* a cache write that caches whatever the attempt returned
CacheAfterFetchAnyResponse(q, out) ==
    IF out.kind \in {"ok", "4xx"}
    THEN [weatherCache EXCEPT ![q.cacheKey] =
             PagesCacheEntry(IF out.kind = "ok"
                             THEN PagesTransformedData(out.body)
                             ELSE NoData, q.currentTime)]
    ELSE weatherCache

\* line 107: weatherCache.set, reached only with a usable 2xx body
CacheAfterFetch(q, out) ==
    IF out.kind = "ok"
    THEN [weatherCache EXCEPT ![q.cacheKey] =
             PagesCacheEntry(PagesTransformedData(out.body), q.currentTime)]
    ELSE weatherCache

PagesFetchReturn(r, out) ==
    /\ variant = "pages"
    /\ req[r].pc = "fetch"
    /\ req' = [req EXCEPT ![r] = AfterFetch(req[r], out)]
    /\ weatherCache' = CacheAfterFetch(req[r], out)
    /\ UNCHANGED <<variant, envOk, secretToken, clock, firestoreInstance,
                   firestoreDocs, started, rawS, rawT, page>>

\* line 86: the backoff timer of a failed attempt fires
PagesBackoffDone(r) ==
    /\ variant = "pages"
    /\ req[r].pc = "backoff"
    /\ req' = [req EXCEPT ![r] = NextAttempt(req[r])]
    /\ UNCHANGED <<variant, envOk, secretToken, clock, firestoreInstance,
                   firestoreDocs, weatherCache, started, rawS, rawT, page>>

(* ------------------ server.js: GET /weather/:city ----------------------- *)
\* bodies of the external API: location.name, current.temp_c,
\* current.condition.text, current.condition.icon
ExpressBodies ==
    {[name |-> <<"A">>, temp_c |-> 18, text |-> "Sunny", icon |-> "day.png"],
     [name |-> <<"A">>, temp_c |-> 9, text |-> "Clear", icon |-> "night.png"]}

AxiosOutcomes ==
    {[kind |-> "throw"], [kind |-> "400"]}
    \cup {[kind |-> "ok", body |-> b] : b \in ExpressBodies}

\* the correctly spelled String.prototype.endsWith
endsWith(icon, suffix) ==
    [kind |-> "ok", icon |-> IF icon = suffix THEN "sun" ELSE "moon"]

\* externalData.current.condition.icon.endsWuth('day.png'): strings have no
\* method of that name, so the call throws a TypeError
endsWuth(icon, suffix) == [kind |-> "TypeError"]

\* lines 74-81
standardizedData(externalData, icon) ==
    [city |-> externalData.name,
     temperature_c |-> externalData.temp_c,
     condition |-> externalData.text,
     icon |-> icon,
     last_updated |-> clock]

\* expiresAt = now + (CACHE_TTL_SECONDS * 1000)
ExpressCacheEntry(data, now) ==
    [data |-> data, expiry |-> now + (CACHE_TTL_SECONDS * 1000)]

\* an expiry test that still serves an entry at its expiry instant
ExpressFreshInclusive(cachedEntry, now) ==
    /\ cachedEntry # NoEntry
    /\ cachedEntry.expiry >= now

\* cachedEntry && cachedEntry.expiry > now
ExpressFresh(cachedEntry, now) ==
    /\ cachedEntry # NoEntry
    /\ cachedEntry.expiry > now

\* lines 96-105: the text the catch block chooses for the error it caught
errorMessage(error) ==
    IF error.kind = "400" THEN "Invalid city name or location not found."
    ELSE IF error.kind = "missingKey"
    THEN "External API key is missing. Check the .env file."
    ELSE "Failed to fetch weather data."

\* res.status(500).json({ detail: errorMessage })
FailedDetail(q, error) ==
    [Failed(q, 500) EXCEPT !.error = errorMessage(error)]

\* lines 24-69: apiKeyAuth, then the handler up to the axios call; city is
\* overwritten by its normalized form
ExpressAccept(q0, clientKey) ==
    IF clientKey = "none" \/ clientKey # CLIENT_SECRET_TOKEN
    THEN Failed(q0, 401)
    ELSE LET q1 == [q0 EXCEPT !.city = CacheKey(q0.city),
                              !.cacheKey = CacheKey(q0.city),
                              !.currentTime = clock, !.gets = 1]
             cachedEntry == weatherCache[q1.cacheKey]
         IN  IF ExpressFresh(cachedEntry, q1.currentTime)
             THEN Answered(q1, cachedEntry.data, "cache")
             ELSE IF ~envOk
             THEN FailedDetail(q1, [kind |-> "missingKey"])
             ELSE [q1 EXCEPT !.pc = "axios", !.wxCalls = @ + 1,
                             !.query = encodeURIComponent(q1.city),
                             !.pred = {}, !.seen =
                     IF cachedEntry = NoEntry THEN "absent" ELSE "stale"]

ExpressStart(r, clientKey, city) ==
    /\ variant = "express"
    /\ FreeSlot(r)
    /\ city # <<>>
    /\ started < MaxStarts
    /\ started' = started + 1
    /\ req' = [req EXCEPT ![r] = ExpressAccept(Arrived(city), clientKey)]
    /\ UNCHANGED <<variant, envOk, secretToken, clock, firestoreInstance,
                   firestoreDocs, weatherCache, rawS, rawT, page>>

\* lines 63-110: the axios call settles
ExpressAxiosReturn(r, out) ==
    /\ variant = "express"
    /\ req[r].pc = "axios"
    /\ LET q == req[r]
           isDay == IF out.kind = "ok"
                    THEN endsWuth(out.body.icon, "day.png")
                    ELSE [kind |-> "none"]
       IN  IF out.kind # "ok" \/ isDay.kind = "TypeError"
           THEN /\ req' = [req EXCEPT ![r] =
                         FailedDetail(q, IF out.kind = "ok" THEN isDay
                                         ELSE out)]
                /\ UNCHANGED weatherCache
           ELSE LET data == standardizedData(out.body, isDay.icon)
                IN  /\ weatherCache' = [weatherCache EXCEPT ![q.cacheKey] =
                                          ExpressCacheEntry(data,
                                                            q.currentTime)]
                    /\ req' = [req EXCEPT ![r] =
                         Answered([q EXCEPT !.puts = @ + 1], data,
                                  "EXTERNAL_API_FETCH")]
    /\ UNCHANGED <<variant, envOk, secretToken, clock, firestoreInstance,
                   firestoreDocs, started, rawS, rawT, page>>

(* ------------------- page.tsx: the WeatherPage component ---------------- *)
\* the variables of the server side, which the page never touches
ServerVars == <<variant, envOk, secretToken, clock, firestoreInstance,
                firestoreDocs, weatherCache, req, started, rawS, rawT>>

\* network requests of the page that can be in flight together
Calls == 1..MaxCalls

\* city names under which the server answers
CityNames == {<<"A">>, <<"a">>, <<"b">>, <<"a", "b">>}

\* records the page receives (WeatherData)
WeatherRecords ==
    {[cityName |-> n, source |-> "api"] : n \in CityNames}
    \cup {[cityName |-> <<"A">>, source |-> "cache"]}

\* what a settled network call delivers: a success body, a body with an
\* error field, a failure status without one, or a rejected fetch / json()
Responses ==
    {[kind |-> "ok", data |-> d] : d \in WeatherRecords}
    \cup {[kind |-> "error", error |-> "Could not find coordinates"],
          [kind |-> "status", status |-> 500],
          [kind |-> "throw", message |-> "Failed to fetch"]}

\* useState initial values; token: NEXT_PUBLIC_CLIENT_TOKEN is set
PageInit(token) ==
    [token |-> token, city |-> <<>>, weather |-> NoData,
     searchedCities |-> <<>>, loading |-> FALSE, error |-> "null",
     calls |-> [c \in Calls |-> "free"]]

\* `/api/weather?city=${encodeURIComponent(searchCity.trim())}`
WeatherUrl(searchCity) == encodeURIComponent(Trim(searchCity))

\* searchParams.get('city'): the query value with its percent-escapes decoded
DecodeChar(c) == IF c = "%20" THEN " " ELSE IF c = "%09" THEN "\t" ELSE c

searchParamsGet(query) == [i \in 1..Len(query) |-> DecodeChar(query[i])]

FreeCalls(p) == {c \in Calls : p.calls[c] = "free"}

InFlight(p) == {c \in Calls : p.calls[c] # "free"}

\* a fetchWeather whose blank-input branch returns without setLoading(false)
fetchWeatherBlankKeepsLoading(p, searchCity) ==
    IF searchCity = <<>> \/ Trim(searchCity) = <<>>
    THEN [p EXCEPT !.loading = TRUE, !.error = "Please enter a city name."]
    ELSE IF ~p.token
    THEN [p EXCEPT !.loading = FALSE,
                   !.error = "Configuration Error: Client API Token"]
    ELSE [p EXCEPT !.loading = TRUE, !.error = "null",
                   !.calls[CHOOSE c \in FreeCalls(p) :
                              \A d \in FreeCalls(p) : c <= d] = "sent"]

\* lines 375-399: fetchWeather up to its await; the state updates of one
\* event handler are applied together
fetchWeather(p, searchCity) ==
    IF searchCity = <<>> \/ Trim(searchCity) = <<>>
    THEN [p EXCEPT !.loading = FALSE, !.error = "Please enter a city name."]
    ELSE IF ~p.token
    THEN [p EXCEPT !.loading = FALSE,
                   !.error = "Configuration Error: Client API Token"]
    ELSE [p EXCEPT !.loading = TRUE, !.error = "null",
                   !.calls[CHOOSE c \in FreeCalls(p) :
                              \A d \in FreeCalls(p) : c <= d] = "sent"]

\* fetchWeather would issue a request and no call slot is left
NeedsCall(p, searchCity) ==
    /\ Trim(searchCity) # <<>>
    /\ p.token
    /\ FreeCalls(p) = {}

\* a history update that compares city names exactly
PrependUniqueExact(prevCities, newWeatherData) ==
    <<newWeatherData>>
    \o SelectSeq(prevCities,
                 LAMBDA c : c.cityName # newWeatherData.cityName)

\* lines 408-419: filter out the city ignoring case, prepend the new result
PrependUnique(prevCities, newWeatherData) ==
    <<newWeatherData>>
    \o SelectSeq(prevCities,
                 LAMBDA c : ToLowerCase(c.cityName)
                               # ToLowerCase(newWeatherData.cityName))

\* a continuation whose failure path leaves the loading flag as it is
afterFetchNoFinally(p, c, out) ==
    LET q == [p EXCEPT !.calls[c] = "free"]
    IN  IF out.kind = "ok"
        THEN [q EXCEPT !.weather = out.data,
                       !.searchedCities = PrependUnique(@, out.data),
                       !.loading = FALSE]
        ELSE [q EXCEPT !.error = "Failed to fetch"]

\* a continuation that clears the displayed result when the search fails
afterFetchClearsOnError(p, c, out) ==
    LET q == [p EXCEPT !.calls[c] = "free", !.loading = FALSE]
    IN  IF out.kind = "ok"
        THEN [q EXCEPT !.weather = out.data,
                       !.searchedCities = PrependUnique(@, out.data)]
        ELSE [q EXCEPT !.error = "Failed to fetch", !.weather = NoData]

\* lines 400-427: the continuation of fetchWeather after its awaits
afterFetch(p, c, out) ==
    LET q == [p EXCEPT !.calls[c] = "free", !.loading = FALSE]
    IN  IF out.kind = "ok"
        THEN [q EXCEPT !.weather = out.data,
                       !.searchedCities = PrependUnique(@, out.data)]
        ELSE IF out.kind = "error" THEN [q EXCEPT !.error = out.error]
        ELSE IF out.kind = "status"
        THEN [q EXCEPT !.error = "HTTP error! Status: 500"]
        ELSE [q EXCEPT !.error = out.message]

\* lines 430-435
resetApp(p) ==
    [p EXCEPT !.city = <<>>, !.weather = NoData, !.loading = FALSE,
              !.error = "null"]

\* lines 438-441
clearHistory(p) == resetApp([p EXCEPT !.searchedCities = <<>>])

\* lines 447-459
handleSubmit(p) ==
    LET trimmedCity == Trim(p.city)
    IN  IF trimmedCity = <<>>
        THEN [p EXCEPT !.error = "Please enter a city name.", !.city = <<>>]
        ELSE fetchWeather([p EXCEPT !.city = trimmedCity], trimmedCity)

\* line 462
isIntroMode(p) == p.searchedCities = <<>>

\* requests in flight when a reset is clicked are remembered as started
\* before it ("preFull" for the full reset, else "preView")
MarkBefore(p, mark) ==
    [p EXCEPT !.calls =
        [c \in Calls |->
            IF p.calls[c] = "free" \/ p.calls[c] = "preFull" THEN p.calls[c]
            ELSE mark]]

\* onChange of the search input (disabled while loading)
TypeCity(text) ==
    /\ ~page.loading
    /\ text # page.city
    /\ page' = [page EXCEPT !.city = text]
    /\ UNCHANGED ServerVars

\* onSubmit of the search form (its button is disabled while loading)
Submit ==
    /\ ~page.loading
    /\ ~NeedsCall(page, page.city)
    /\ page' = handleSubmit(page)
    /\ UNCHANGED ServerVars

\* onClick of entry i of the history log
ClickHistory(i) ==
    /\ ~isIntroMode(page)
    /\ i \in 1..Len(page.searchedCities)
    /\ ~NeedsCall(page, page.searchedCities[i].cityName)
    /\ page' = fetchWeather(page, page.searchedCities[i].cityName)
    /\ UNCHANGED ServerVars

\* onClick of "Clear View"
ClearView ==
    /\ ~isIntroMode(page)
    /\ page' = MarkBefore(resetApp(page), "preView")
    /\ UNCHANGED ServerVars

\* onClick of the full reset link (shown with the weather card, disabled
\* while loading)
FullReset ==
    /\ ~isIntroMode(page)
    /\ page.weather # NoData
    /\ ~page.loading
    /\ page' = MarkBefore(clearHistory(page), "preFull")
    /\ UNCHANGED ServerVars

\* the network call c settles and fetchWeather resumes
ResponseArrives(c, out) ==
    /\ page.calls[c] # "free"
    /\ page' = afterFetch(page, c, out)
    /\ UNCHANGED ServerVars

InitPage ==
    /\ variant = "app"
    /\ envOk = TRUE
    /\ secretToken = "tok"
    /\ clock = 0
    /\ firestoreInstance = FALSE
    /\ firestoreDocs = [k \in Keys |-> NoEntry]
    /\ weatherCache = [k \in Keys |-> NoEntry]
    /\ req = [r \in Req |-> IdleReq]
    /\ started = 0
    /\ rawS = <<>>
    /\ rawT = <<>>
    /\ page \in {PageInit(t) : t \in BOOLEAN}

NextPage ==
    \/ \E text \in RawCities : TypeCity(text)
    \/ Submit
    \/ \E i \in 1..Cardinality(CityNames) : ClickHistory(i)
    \/ ClearView
    \/ FullReset
    \/ \E c \in Calls, out \in Responses : ResponseArrives(c, out)

SpecPage == InitPage /\ [][NextPage]_vars

(* --------------------------- environment -------------------------------- *)
\* a clock tick that also sweeps expired entries out of the caches
TickSweeping(t) ==
    /\ t \in Times
    /\ t > clock
    /\ clock' = t
    /\ weatherCache' =
         [k \in Keys |->
             IF weatherCache[k] # NoEntry
                /\ ~PagesFresh(weatherCache[k], t)
             THEN NoEntry ELSE weatherCache[k]]
    /\ UNCHANGED <<variant, envOk, secretToken, firestoreInstance,
                   firestoreDocs, req, started, rawS, rawT, page>>

\* Date.now() advances
Tick(t) ==
    /\ t \in Times
    /\ t > clock
    /\ clock' = t
    /\ UNCHANGED <<variant, envOk, secretToken, firestoreInstance,
                   firestoreDocs, weatherCache, req, started, rawS, rawT,
                   page>>

\* the response has been delivered; the slot serves the next request
Recycle(r) ==
    /\ req[r].pc = "done"
    /\ req' = [Forget(r) EXCEPT ![r] = IdleReq]
    /\ UNCHANGED <<variant, envOk, secretToken, clock, firestoreInstance,
                   firestoreDocs, weatherCache, started, rawS, rawT, page>>

Init ==
    /\ variant \in {"app", "pages", "express"}
    /\ envOk \in BOOLEAN
    /\ secretToken \in {"tok", "none"}
    /\ clock = 0
    /\ firestoreInstance = FALSE
    /\ firestoreDocs = [k \in Keys |-> NoEntry]
    /\ weatherCache = [k \in Keys |-> NoEntry]
    /\ req = [r \in Req |-> IdleReq]
    /\ started = 0
    /\ rawS = <<>>
    /\ rawT = <<>>
    /\ page = PageInit(TRUE)

Next ==
    \/ \E r \in Req, k \in ClientKeys, c \in RawCities, e \in BOOLEAN :
          AppStart(r, k, c, e)
    \/ \E r \in Req, e \in BOOLEAN : AppGetDocReturn(r, e)
    \/ \E r \in Req : \E out \in GeoOutcomes(req[r].query) :
          AppGeoReturn(r, out)
    \/ \E r \in Req, out \in WeatherOutcomes : AppWeatherReturn(r, out)
    \/ \E r \in Req, e \in BOOLEAN : AppSetDocReturn(r, e)
    \/ \E r \in Req, m \in Methods, k \in ClientKeys, c \in RawCities :
          PagesStart(r, m, k, c)
    \/ \E r \in Req, out \in FetchOutcomes : PagesFetchReturn(r, out)
    \/ \E r \in Req : PagesBackoffDone(r)
    \/ \E r \in Req, k \in ClientKeys, c \in RawCities :
          ExpressStart(r, k, c)
    \/ \E r \in Req, out \in AxiosOutcomes : ExpressAxiosReturn(r, out)
    \/ \E t \in Times : Tick(t)
    \/ \E r \in Req : Recycle(r)

Spec == Init /\ [][Next]_vars

\* the call or timer that request r is waiting on settles: it returns or
\* throws, or the timer fires, and the continuation of the handler runs
Settles(r) ==
    \/ \E e \in BOOLEAN : AppGetDocReturn(r, e)
    \/ \E out \in GeoOutcomes(req[r].query) : AppGeoReturn(r, out)
    \/ \E out \in WeatherOutcomes : AppWeatherReturn(r, out)
    \/ \E e \in BOOLEAN : AppSetDocReturn(r, e)
    \/ \E out \in FetchOutcomes : PagesFetchReturn(r, out)
    \/ PagesBackoffDone(r)
    \/ \E out \in AxiosOutcomes : ExpressAxiosReturn(r, out)

\* every awaited call eventually settles and every timer set by setTimeout
\* eventually fires (a request waits on one of them at a time)
CallsSettle == \A r \in Req : WF_vars(Settles(r))

LiveSpec == Spec /\ CallsSettle

(* ------------------- key computation on raw strings --------------------- *)
RECURSIVE StringsUpTo(_)
StringsUpTo(n) ==
    IF n = 0 THEN {<<>>}
    ELSE LET shorter == StringsUpTo(n - 1)
         IN  shorter \cup {Append(s, c) : s \in shorter, c \in Chars}

\* the other letter case of a character
OtherCase(c) == IF c = "a" THEN "A" ELSE IF c = "A" THEN "a" ELSE c

\* rawT always differs from rawS only by letter case and by leading or
\* trailing whitespace: each action is one such difference
FlipCase(i) ==
    /\ i \in 1..Len(rawT)
    /\ OtherCase(rawT[i]) # rawT[i]
    /\ rawT' = [rawT EXCEPT ![i] = OtherCase(rawT[i])]
    /\ UNCHANGED <<variant, envOk, secretToken, clock, firestoreInstance,
                   firestoreDocs, weatherCache, req, started, rawS, page>>

PadStart(w) ==
    /\ Len(rawT) < MaxLen
    /\ rawT' = <<w>> \o rawT
    /\ UNCHANGED <<variant, envOk, secretToken, clock, firestoreInstance,
                   firestoreDocs, weatherCache, req, started, rawS, page>>

PadEnd(w) ==
    /\ Len(rawT) < MaxLen
    /\ rawT' = Append(rawT, w)
    /\ UNCHANGED <<variant, envOk, secretToken, clock, firestoreInstance,
                   firestoreDocs, weatherCache, req, started, rawS, page>>

StripStart ==
    /\ rawT # <<>>
    /\ Head(rawT) \in Whitespace
    /\ rawT' = Tail(rawT)
    /\ UNCHANGED <<variant, envOk, secretToken, clock, firestoreInstance,
                   firestoreDocs, weatherCache, req, started, rawS, page>>

StripEnd ==
    /\ rawT # <<>>
    /\ rawT[Len(rawT)] \in Whitespace
    /\ rawT' = SubSeq(rawT, 1, Len(rawT) - 1)
    /\ UNCHANGED <<variant, envOk, secretToken, clock, firestoreInstance,
                   firestoreDocs, weatherCache, req, started, rawS, page>>

InitNorm ==
    /\ variant = "app"
    /\ envOk = TRUE
    /\ secretToken = "tok"
    /\ clock = 0
    /\ firestoreInstance = FALSE
    /\ firestoreDocs = [k \in Keys |-> NoEntry]
    /\ weatherCache = [k \in Keys |-> NoEntry]
    /\ req = [r \in Req |-> IdleReq]
    /\ started = 0
    /\ rawS \in StringsUpTo(MaxLen)
    /\ rawT = rawS
    /\ page = PageInit(TRUE)

NextNorm ==
    \/ \E i \in 1..MaxLen : FlipCase(i)
    \/ \E w \in Whitespace : PadStart(w)
    \/ \E w \in Whitespace : PadEnd(w)
    \/ StripStart
    \/ StripEnd

SpecNorm == InitNorm /\ [][NextNorm]_vars

(* ------------- expiry stamps and ages on the same instants -------------- *)
\* instants just before, at and just after every whole number of cache
\* lifetimes since the start
Instants ==
    {t \in {n * CACHE_DURATION_MS + d :
                n \in 0..MaxPeriods, d \in {0 - 1, 0, 1}} : t >= 0}

\* Date.now() advances to a later instant
Elapse(t) ==
    /\ t \in Instants
    /\ t > clock
    /\ clock' = t
    /\ UNCHANGED <<variant, envOk, secretToken, firestoreInstance,
                   firestoreDocs, weatherCache, req, started, rawS, rawT,
                   page>>

\* the same record is stored at the same instant by the expiry-stamp scheme
\* (server.js, weatherCache) and by the age scheme (route.ts, firestoreDocs)
StoreUnderBothSchemes(k) ==
    /\ weatherCache' =
         [weatherCache EXCEPT ![k] = ExpressCacheEntry([city |-> k], clock)]
    /\ firestoreDocs' =
         [firestoreDocs EXCEPT
            ![k] = [data |-> [city |-> k], timestamp |-> NumberTs(clock)]]
    /\ UNCHANGED <<variant, envOk, secretToken, clock, firestoreInstance, req,
                   started, rawS, rawT, page>>

InitExpiry ==
    /\ variant = "express"
    /\ envOk = TRUE
    /\ secretToken = "tok"
    /\ clock = 0
    /\ firestoreInstance = FALSE
    /\ firestoreDocs = [k \in Keys |-> NoEntry]
    /\ weatherCache = [k \in Keys |-> NoEntry]
    /\ req = [r \in Req |-> IdleReq]
    /\ started = 0
    /\ rawS = <<>>
    /\ rawT = <<>>
    /\ page = PageInit(TRUE)

NextExpiry ==
    \/ \E t \in Instants : Elapse(t)
    \/ \E k \in Keys : StoreUnderBothSchemes(k)

SpecExpiry == InitExpiry /\ [][NextExpiry]_vars

(* ------------- stored timestamps of every representation --------------- *)
\* what the timestamp field of a document of the public collection can
\* hold: a Firestore Timestamp, a number, nothing, or a value of another
\* type
StampValues ==
    {[kind |-> "Timestamp", ms |-> t] : t \in Instants}
    \cup {NumberTs(t) : t \in Instants}
    \cup {[kind |-> "missing"], [kind |-> "string"], [kind |-> "null"]}

\* a writer of the collection stores a document for key k whose timestamp
\* field holds ts, an instant that has passed where it holds one
StoreStamped(k, ts) ==
    /\ ts.kind \in {"Timestamp", "number"} => ts.ms <= clock
    /\ firestoreDocs' =
         [firestoreDocs EXCEPT ![k] = [data |-> NoData, timestamp |-> ts]]
    /\ UNCHANGED <<variant, envOk, secretToken, clock, firestoreInstance,
                   weatherCache, req, started, rawS, rawT, page>>

InitStamp ==
    /\ variant = "app"
    /\ envOk = TRUE
    /\ secretToken = "tok"
    /\ clock = 0
    /\ firestoreInstance = FALSE
    /\ firestoreDocs = [k \in Keys |-> NoEntry]
    /\ weatherCache = [k \in Keys |-> NoEntry]
    /\ req = [r \in Req |-> IdleReq]
    /\ started = 0
    /\ rawS = <<>>
    /\ rawT = <<>>
    /\ page = PageInit(TRUE)

NextStamp ==
    \/ \E t \in Instants : Elapse(t)
    \/ \E k \in Keys, ts \in StampValues : StoreStamped(k, ts)

SpecStamp == InitStamp /\ [][NextStamp]_vars

(* ------------------------- vocabulary of the claims --------------------- *)
TTL == CACHE_DURATION_MS

\* the cache of the deployed variant
StoreOf(k) == IF variant = "app" THEN firestoreDocs[k] ELSE weatherCache[k]

StoreOfNext(k) ==
    IF variant = "app" THEN firestoreDocs'[k] ELSE weatherCache'[k]

\* the instant at which an entry was stored
StoredAtMs(e) ==
    IF variant = "app" THEN getTimestampInMs(e.timestamp)
    ELSE IF variant = "pages" THEN e.timestamp
    ELSE e.expiry - CACHE_TTL_SECONDS * 1000

\* the request waits for the upstream or for the write that follows it
InUpstream(q) ==
    q.pc \in {"geo", "weather", "setDoc", "fetch", "backoff", "axios"}

\* this step gives request r the result of its cache lookup
ReadsNow(r) ==
    \/ /\ req[r].pc = "getDoc"
       /\ req'[r].pc # "getDoc"
       /\ ~req'[r].readErr
    \/ /\ variant \in {"pages", "express"}
       /\ req[r].pc = "idle"
       /\ req'[r].gets = 1

\* this step decides between hit and miss for request r
DecidesNow(r) ==
    /\ req[r].pc \in {"idle", "getDoc"}
    /\ req'[r].pc \notin {"idle", "getDoc"}
    /\ req'[r].status \notin {400, 401, 405}

\* this step returns the response of request r
Completes(r) == req[r].pc # "done" /\ req'[r].pc = "done"

(* C1: whenever the cache lookup of a request returns an entry younger     *)
(* than the TTL, the request is answered at once with exactly that         *)
(* entry's record, tagged "cache", and no geocoding, weather or store-put  *)
(* call has been made for it.                                              *)
FreshHitShortCircuits ==
    [][\A r \in Req :
         LET k == req'[r].cacheKey
             e == StoreOf(k)
         IN  (/\ ReadsNow(r)
              /\ e # NoEntry
              /\ req'[r].currentTime - StoredAtMs(e) < TTL)
             => /\ req'[r].pc = "done"
                /\ req'[r].status = 200
                /\ req'[r].source = "cache"
                /\ req'[r].data = e.data
                /\ req'[r].geoCalls = 0
                /\ req'[r].wxCalls = 0
                /\ req'[r].puts = 0]_vars

\* a request answered from the cache at the last fresh instant t0 + TTL - 1
FreshHitAtLastInstant ==
    \E r \in Req :
        /\ req[r].pc = "done"
        /\ req[r].source = "cache"
        /\ StoreOf(req[r].cacheKey) # NoEntry
        /\ req[r].data = StoreOf(req[r].cacheKey).data
        /\ req[r].currentTime - StoredAtMs(StoreOf(req[r].cacheKey)) = TTL - 1
        /\ req[r].geoCalls + req[r].wxCalls = 0

(* C2: when the cache lookup returns an entry, the request is a miss (it   *)
(* is not answered from the cache and goes to the upstream fetch) exactly  *)
(* when now - storedAt >= TTL; so TTL - 1 is a hit and TTL is a miss.      *)
ExpiryBoundaryInclusive ==
    [][\A r \in Req :
         LET k == req'[r].cacheKey
             e == StoreOf(k)
             age == req'[r].currentTime - StoredAtMs(e)
         IN  (ReadsNow(r) /\ e # NoEntry)
             => /\ (age >= TTL) <=> (req'[r].source # "cache")
                /\ (age >= TTL) <=>
                      \/ InUpstream(req'[r])
                      \/ variant = "express" /\ ~envOk
                /\ (age = TTL - 1) => req'[r].source = "cache"
                /\ (age = TTL) => req'[r].source # "cache"]_vars

\* a request on the upstream path whose entry is aged exactly one TTL
MissAtExactlyTTL ==
    \E r \in Req :
        /\ InUpstream(req[r])
        /\ req[r].seen = "stale"
        /\ StoreOf(req[r].cacheKey) # NoEntry
        /\ req[r].currentTime - StoredAtMs(StoreOf(req[r].cacheKey)) = TTL

(* C3 as stated: every request answered from upstream has made exactly one *)
(* upstream fetch and exactly one store put.                               *)
ColdMissOneFetchOnePut ==
    \A r \in Req :
        (req[r].pc = "done" /\ req[r].source = "api")
        => /\ req[r].wxCalls = 1
           /\ req[r].puts = 1

(* C3 amended: a request makes at most one geocoding call, at most one     *)
(* conditions call (at most maxRetries fetch attempts in the pages         *)
(* handler) and at most one store put; one answered from upstream has made *)
(* at least one fetch and has put exactly when it holds a store handle;    *)
(* the entry a successful put leaves is stamped with the now captured at   *)
(* the start of the request and holds the record returned.                 *)
ColdMissBoundedFetchStampedPut ==
    [][\A r \in Req :
         Completes(r)
         => LET q == req'[r]
            IN  /\ q.geoCalls <= 1
                /\ q.wxCalls <= (IF variant = "pages" THEN maxRetries ELSE 1)
                /\ q.puts <= 1
                /\ q.source = "api"
                   => /\ q.geoCalls = (IF variant = "app" THEN 1 ELSE 0)
                      /\ q.wxCalls >= 1
                      /\ (q.puts = 1) <=> (variant = "app" => req[r].db)
                      /\ (q.puts = 1 /\ ~q.putErr)
                         => /\ StoreOfNext(q.cacheKey) # NoEntry
                            /\ StoreOfNext(q.cacheKey).data = q.data
                            /\ StoredAtMs(StoreOfNext(q.cacheKey))
                                  = q.currentTime]_vars

\* an entry written after the clock moved on, stamped with the start time
PutStampedWithRequestTime ==
    \E r \in Req :
        /\ req[r].pc = "done"
        /\ req[r].source = "api"
        /\ req[r].puts = 1
        /\ ~req[r].putErr
        /\ StoreOf(req[r].cacheKey) # NoEntry
        /\ StoreOf(req[r].cacheKey).data = req[r].data
        /\ StoredAtMs(StoreOf(req[r].cacheKey)) = req[r].currentTime
        /\ clock > req[r].currentTime

\* r1 was answered from upstream before r2 arrived, for the same key, and
\* r2 arrived less than one TTL after r1
RepeatOf(r1, r2) ==
    /\ r1 # r2
    /\ DecidesNow(r2)
    /\ r1 \in (IF req[r2].pc = "idle" THEN DoneNow ELSE req[r2].pred)
    /\ req[r1].pc = "done"
    /\ req[r1].source = "api"
    /\ req'[r2].cacheKey = req[r1].cacheKey
    /\ req'[r2].currentTime - req[r1].currentTime < TTL

\* r2 gets the record of r1 from the cache without any upstream call
ServedAs(r1, r2) ==
    /\ req'[r2].pc = "done"
    /\ req'[r2].status = 200
    /\ req'[r2].source = "cache"
    /\ req'[r2].data = req[r1].data
    /\ req'[r2].geoCalls = 0
    /\ req'[r2].wxCalls = 0

NoStaleFallback ==
    [][\A r \in Req :
         (Completes(r) /\ req[r].seen = "stale")
         => \/ /\ req'[r].status = 200
               /\ req'[r].source \in {"api", "EXTERNAL_API_FETCH"}
               /\ req'[r].wxCalls >= 1
            \/ /\ req'[r].status \in {404, 500, 502}
               /\ req'[r].source = "none"
               /\ req'[r].data = NoData]_vars

\* a failed request whose key still holds the expired entry it found
FailedOverStaleEntry ==
    \E r \in Req :
        /\ req[r].pc = "done"
        /\ req[r].status \in {404, 500, 502}
        /\ req[r].geoCalls + req[r].wxCalls >= 1
        /\ req[r].data = NoData
        /\ StoreOf(req[r].cacheKey) # NoEntry
        /\ req[r].currentTime - StoredAtMs(StoreOf(req[r].cacheKey)) >= TTL

(* C6: the step that returns an error response leaves every cache entry    *)
(* as it was, and no store put was made for a request that ends in error.  *)
FailuresNotCached ==
    [][\A r \in Req :
         (Completes(r) /\ req'[r].status # 200)
         => /\ firestoreDocs' = firestoreDocs
            /\ weatherCache' = weatherCache
            /\ req'[r].puts = 0]_vars

\* a request failed by the upstream while its key has no entry
UpstreamFailureLeftNoEntry ==
    \E r \in Req :
        /\ req[r].pc = "done"
        /\ req[r].status \in {404, 502}
        /\ req[r].geoCalls + req[r].wxCalls >= 1
        /\ req[r].puts = 0
        /\ StoreOf(req[r].cacheKey) = NoEntry

(* C7: a request whose store put was issued is answered 200 with the       *)
(* fetched record tagged "api" whether or not the put throws, and a put    *)
(* that throws leaves the store unchanged; a request without a store       *)
(* handle that fetched a record is answered the same way, store unchanged. *)
PutFailureDoesNotFail ==
    [][\A r \in Req :
         /\ (req[r].pc = "setDoc" /\ req'[r].pc # "setDoc")
            => /\ req'[r].pc = "done"
               /\ req'[r].status = 200
               /\ req'[r].source = "api"
               /\ req'[r].data = req[r].data
               /\ req'[r].putErr => firestoreDocs' = firestoreDocs
         /\ (req[r].pc = "weather" /\ ~req[r].db /\ Completes(r))
            => /\ firestoreDocs' = firestoreDocs
               /\ \/ req'[r].status \in {500, 502}
                  \/ /\ req'[r].status = 200
                     /\ req'[r].source = "api"
                     /\ req'[r].data # NoData]_vars

\* a request answered from upstream although its put threw
AnsweredDespitePutFailure ==
    \E r \in Req :
        /\ req[r].pc = "done"
        /\ req[r].putErr
        /\ req[r].status = 200
        /\ req[r].source = "api"
        /\ firestoreDocs[req[r].cacheKey] = NoEntry

(* C8: in the App Router handler a request without a store handle, or      *)
(* whose getDoc threw, is on the upstream path as one that found no entry; *)
(* no error response is produced before the geocoding call; and an answer  *)
(* tagged "cache" comes only from a lookup that returned.                  *)
ReadFailureIsMiss ==
    \A r \in Req :
        variant = "app"
        => /\ req[r].readErr
              => /\ InUpstream(req[r])
                 /\ req[r].seen = "none"
                 /\ req[r].geoCalls = 1
           /\ (InUpstream(req[r]) /\ ~req[r].db)
              => /\ req[r].gets = 0
                 /\ req[r].geoCalls = 1
           /\ (req[r].pc = "done" /\ req[r].status \notin {200, 400, 401})
              => req[r].geoCalls = 1
           /\ req[r].source = "cache"
              => /\ req[r].gets = 1
                 /\ req[r].geoCalls = 0

\* a request that went on to the conditions call after its getDoc threw
UpstreamAfterReadFailure ==
    \E r \in Req :
        /\ variant = "app"
        /\ req[r].readErr
        /\ req[r].gets = 1
        /\ req[r].pc = "weather"

(* C9: a request whose city is empty or all whitespace makes no store get, *)
(* no upstream call and no store put, and is rejected as it arrives.       *)
BlankCityRejected ==
    \A r \in Req :
        (req[r].pc # "idle" /\ Trim(req[r].city) = <<>>)
        => /\ req[r].pc = "done"
           /\ req[r].status \in {400, 401, 405, 500}
           /\ req[r].gets = 0
           /\ req[r].geoCalls = 0
           /\ req[r].wxCalls = 0
           /\ req[r].puts = 0

(* C10: two raw inputs that differ only by letter case or by leading or    *)
(* trailing whitespace have the same key; the key has no upper-case letter *)
(* and no whitespace at either end; computing the key of a key gives the   *)
(* key.                                                                    *)
KeyNormalization ==
    LET k == CacheKey(rawS)
    IN  /\ CacheKey(rawT) = k
        /\ CacheKey(k) = k
        /\ \A i \in 1..Len(k) : k[i] # "A"
        /\ k # <<>> => (k[1] \notin Whitespace /\ k[Len(k)] \notin Whitespace)

\* two different spellings of one non-empty key, neither being the key
TwoSpellingsOneKey ==
    /\ rawT # rawS
    /\ CacheKey(rawS) # <<>>
    /\ CacheKey(rawS) # rawS
    /\ CacheKey(rawT) # rawT
    /\ CacheKey(rawT) = CacheKey(rawS)

RecordFields ==
    IF variant = "app"
    THEN {"cityName", "country", "temperature", "description"}
    ELSE IF variant = "pages" THEN {"city", "temperature", "description"}
    ELSE {"city", "temperature_c", "condition", "icon", "last_updated"}

\* an entry is a record and a time, and the record has no source field
EntryWithoutSource(e) ==
    /\ DOMAIN e = {"data", IF variant = "express" THEN "expiry"
                              ELSE "timestamp"}
    /\ DOMAIN e.data = RecordFields
    /\ "source" \notin DOMAIN e.data

(* C12: every entry held by a store consists of a record and a time only,  *)
(* and the record has the WeatherRecord fields without any source field;   *)
(* the entry a request answered from upstream has put holds exactly the    *)
(* record returned to that caller, the response's source left aside.       *)
ProvenanceNeverPersisted ==
    [][/\ \A k \in Keys :
            /\ firestoreDocs'[k] # NoEntry
               => EntryWithoutSource(firestoreDocs'[k])
            /\ weatherCache'[k] # NoEntry
               => EntryWithoutSource(weatherCache'[k])
       /\ \A r \in Req :
            (/\ Completes(r)
             /\ req'[r].source = "api"
             /\ req'[r].puts = 1
             /\ ~req'[r].putErr)
            => /\ StoreOfNext(req'[r].cacheKey) # NoEntry
               /\ StoreOfNext(req'[r].cacheKey).data = req'[r].data
               /\ DOMAIN req'[r].data = RecordFields]_vars

\* a stored entry without source whose record was returned tagged "api"
StoredRecordIsReturnedRecord ==
    \E r \in Req :
        /\ req[r].pc = "done"
        /\ req[r].source = "api"
        /\ req[r].puts = 1
        /\ StoreOf(req[r].cacheKey) # NoEntry
        /\ EntryWithoutSource(StoreOf(req[r].cacheKey))
        /\ StoreOf(req[r].cacheKey).data = req[r].data

\* the whole entry a request answered from upstream puts
EntryOf(q) ==
    IF variant = "app"
    THEN [data |-> q.data, timestamp |-> [kind |-> "number",
                                          ms |-> q.currentTime]]
    ELSE IF variant = "pages"
    THEN [data |-> q.data, timestamp |-> q.currentTime]
    ELSE [data |-> q.data, expiry |-> q.currentTime + CACHE_TTL_SECONDS * 1000]

\* this step answers request r with a record fetched from upstream
FetchSucceedsNow(r) ==
    /\ Completes(r)
    /\ InUpstream(req[r])
    /\ req'[r].status = 200
    /\ req'[r].source = "api"
    /\ req'[r].wxCalls >= 1

(* C13: a key's entry changes only in the step that answers a request for  *)
(* that key with a record fetched from upstream, and then it becomes the   *)
(* whole entry of that request (its record and its time, nothing kept from *)
(* the entry before); a key that has an entry has one in the next state;   *)
(* the store a variant does not use never changes.                         *)
EntryLifecycle ==
    [][/\ \A k \in Keys :
            /\ StoreOf(k) # NoEntry => StoreOfNext(k) # NoEntry
            /\ StoreOfNext(k) # StoreOf(k)
               => \E r \in Req :
                     /\ FetchSucceedsNow(r)
                     /\ req'[r].cacheKey = k
                     /\ req'[r].puts = 1
                     /\ StoreOfNext(k) = EntryOf(req'[r])
       /\ variant = "app" => weatherCache' = weatherCache
       /\ variant # "app" => firestoreDocs' = firestoreDocs]_vars

\* an entry that expired and was replaced by the entry of a later request
ExpiredEntryReplaced ==
    \E r1, r2 \in Req :
        /\ r1 # r2
        /\ req[r1].pc = "done" /\ req[r1].source = "api"
        /\ req[r1].puts = 1 /\ ~req[r1].putErr
        /\ req[r2].pc = "done" /\ req[r2].source = "api"
        /\ req[r2].puts = 1 /\ ~req[r2].putErr
        /\ req[r2].cacheKey = req[r1].cacheKey
        /\ req[r2].currentTime - req[r1].currentTime >= TTL
        /\ req[r2].data # req[r1].data
        /\ StoreOf(req[r2].cacheKey) = EntryOf(req[r2])

\* what the lookup of a request finds under key k
Found(k, currentTime) ==
    IF StoreOf(k) = NoEntry THEN "absent"
    ELSE IF currentTime - StoredAtMs(StoreOf(k)) < TTL THEN "fresh"
    ELSE "stale"

\* the entry key k has when request r is the only one that ran for it
AloneEntry(r) ==
    IF /\ req[r].pc = "done"
       /\ req[r].source = "api"
       /\ req[r].puts = 1
       /\ ~req[r].putErr
    THEN EntryOf(req[r])
    ELSE NoEntry

\* the two requests of the behaviour so far are for different keys
TwoCallsTwoKeys ==
    /\ started = 2
    /\ \A r \in Req : req[r].pc # "idle"
    /\ req["r1"].cacheKey # req["r2"].cacheKey

(* C14: a step of a request for key k leaves the entry of every other key  *)
(* as it was, and the result of its lookup is determined by the entry of k *)
(* alone (absent, fresh with that entry's record, or expired); when the    *)
(* two requests of a behaviour are for different keys, then however their  *)
(* steps interleave each key holds the entry its own request would have    *)
(* left had it run alone.                                                  *)
KeyIndependence ==
    [][/\ \A r \in Req :
            req'[r] # req[r]
            => LET k == IF req[r].pc = "idle" THEN req'[r].cacheKey
                        ELSE req[r].cacheKey
               IN  /\ \A j \in Keys \ {k} :
                        /\ firestoreDocs'[j] = firestoreDocs[j]
                        /\ weatherCache'[j] = weatherCache[j]
                   /\ ReadsNow(r)
                      => LET f == Found(k, req'[r].currentTime)
                         IN  /\ f = "fresh"
                                => /\ req'[r].source = "cache"
                                   /\ req'[r].data = StoreOf(k).data
                             /\ f # "fresh"
                                => /\ req'[r].source # "cache"
                                   /\ req'[r].pc = "done"
                                      \/ req'[r].seen = f
       /\ TwoCallsTwoKeys'
          => \A r \in Req : StoreOfNext(req'[r].cacheKey) = AloneEntry(r)']_vars

\* a request wrote its key while an older request for another key was
\* still waiting for the upstream; the other key is untouched
WroteBesideOtherKeyInFlight ==
    \E r1, r2 \in Req :
        /\ req[r1].pc = "done" /\ req[r1].source = "api"
        /\ req[r1].puts = 1 /\ ~req[r1].putErr
        /\ StoreOf(req[r1].cacheKey) = EntryOf(req[r1])
        /\ InUpstream(req[r2])
        /\ req[r2].currentTime < req[r1].currentTime
        /\ req[r2].cacheKey # req[r1].cacheKey
        /\ req[r2].cacheKey # <<>>
        /\ StoreOf(req[r2].cacheKey) = NoEntry

\* request r went past its lookup without a hit, or was answered from
\* upstream
ObservedMiss(q) ==
    \/ InUpstream(q)
    \/ q.pc = "done" /\ q.source = "api"

\* this step is a step of the handler of request r
ActsNow(r) ==
    /\ req[r].pc # "done"
    /\ [req'[r] EXCEPT !.pred = {}] # [req[r] EXCEPT !.pred = {}]

(* C15: a request that observed a miss makes its own upstream call and is  *)
(* never answered from the cache or by another request's step, also when   *)
(* another request for the same key is under way; each one whose fetch     *)
(* succeeds issues its own put; and the step in which a put succeeds       *)
(* leaves, whatever another request for that key wrote before, exactly the *)
(* whole entry of the request that writes.                                 *)
NoCoalescingLastWriteWins ==
    [][\A r1, r2 \in Req :
         (/\ r1 # r2
          /\ ObservedMiss(req[r2])
          /\ ActsNow(r1)
          /\ req'[r1].cacheKey = req[r2].cacheKey)
         => /\ req'[r2] = req[r2]
            /\ InUpstream(req'[r1])
               => req'[r1].geoCalls + req'[r1].wxCalls >= 1
            /\ (InUpstream(req[r1]) /\ Completes(r1))
               => req'[r1].source # "cache"
            /\ (FetchSucceedsNow(r1) /\ (variant = "app" => req[r1].db))
               => req'[r1].puts = 1
            /\ (FetchSucceedsNow(r1) /\ req'[r1].puts = 1
                                     /\ ~req'[r1].putErr)
               => StoreOfNext(req'[r1].cacheKey) = EntryOf(req'[r1])]_vars

\* two requests for one key that both missed, fetched different records
\* and wrote; the entry is the whole entry of one of them
TwoMissesBothWrote ==
    \E r1, r2 \in Req :
        /\ r1 # r2
        /\ variant = "pages"
        /\ req[r1].pc = "done" /\ req[r1].source = "api"
        /\ req[r1].puts = 1
        /\ req[r2].pc = "done" /\ req[r2].source = "api"
        /\ req[r2].puts = 1
        /\ req[r1].cacheKey = req[r2].cacheKey
        /\ req[r1].currentTime = req[r2].currentTime
        /\ req[r1].data # req[r2].data
        /\ StoreOf(req[r2].cacheKey) = EntryOf(req[r2])
        /\ StoreOf(req[r2].cacheKey) # EntryOf(req[r1])

\* the state of key k at instant now
KeyStateAt(e, now) ==
    IF e = NoEntry THEN "ABSENT"
    ELSE IF now - StoredAtMs(e) < TTL THEN "FRESH"
    ELSE "STALE"

\* the entry of key k changes in this step: it is the put of a request
\* for k that is answered from upstream in the same step
PutNow(k) ==
    \E r \in Req :
        /\ FetchSucceedsNow(r)
        /\ req'[r].cacheKey = k
        /\ req'[r].puts = 1
        /\ StoreOfNext(k) = EntryOf(req'[r])

\* neither a store nor the clock changes in this step
StoresAndClockUnchanged ==
    /\ firestoreDocs' = firestoreDocs
    /\ weatherCache' = weatherCache
    /\ clock' = clock

\* the store changes only by a put, an unchanged entry changes state only
\* from FRESH to STALE as time passes, and the lookup of a request decides
\* by its now and the entry's storedAt alone
NoBackgroundTransition ==
    /\ \/ StoresAndClockUnchanged
       \/ \A k \in Keys :
            LET a == KeyStateAt(StoreOf(k), clock)
                b == KeyStateAt(StoreOfNext(k), clock')
            IN  /\ StoreOfNext(k) # StoreOf(k) => PutNow(k)
                /\ (StoreOfNext(k) = StoreOf(k) /\ a # b)
                   => /\ a = "FRESH" /\ b = "STALE"
                      /\ clock' > clock
                      /\ clock' - StoredAtMs(StoreOf(k)) >= TTL
    /\ \A r \in Req :
          ReadsNow(r)
          => ((req'[r].source = "cache")
              <=> KeyStateAt(StoreOf(req'[r].cacheKey),
                             req'[r].currentTime) = "FRESH")

(* C16 as stated: the state of a key changes only from ABSENT to FRESH,    *)
(* from FRESH to STALE and from STALE to FRESH, and a put always leaves    *)
(* the key FRESH; no background transition.                                *)
OnlyAbsentFreshStaleFresh ==
    [][/\ NoBackgroundTransition
       /\ StoresAndClockUnchanged \/ \A k \in Keys :
            LET a == KeyStateAt(StoreOf(k), clock)
                b == KeyStateAt(StoreOfNext(k), clock')
            IN  /\ a # b => <<a, b>> \in {<<"ABSENT", "FRESH">>,
                                           <<"FRESH", "STALE">>,
                                           <<"STALE", "FRESH">>}
                /\ StoreOfNext(k) # StoreOf(k) => b = "FRESH"]_vars

(* C16 amended: no background transition; a put replaces whatever the key  *)
(* held (nothing, a fresh or an expired entry) by an entry stamped with    *)
(* the now captured at the start of the writing request, so the key is     *)
(* FRESH after the put if less than TTL has passed since that start and    *)
(* STALE otherwise; no key returns to ABSENT.                              *)
KeyStateMachine ==
    [][/\ NoBackgroundTransition
       /\ StoresAndClockUnchanged \/ \A k \in Keys :
            LET a == KeyStateAt(StoreOf(k), clock)
                b == KeyStateAt(StoreOfNext(k), clock')
            IN  /\ a # "ABSENT" => b # "ABSENT"
                /\ StoreOfNext(k) # StoreOf(k)
                   => \E r \in Req :
                         /\ FetchSucceedsNow(r)
                         /\ req'[r].cacheKey = k
                         /\ StoredAtMs(StoreOfNext(k)) = req'[r].currentTime
                         /\ b = IF clock' - req'[r].currentTime < TTL
                                THEN "FRESH" ELSE "STALE"]_vars

\* an entry that served a hit while fresh and has become stale by time
EntryWentStaleByTime ==
    \E r \in Req :
        LET e == StoreOf(req[r].cacheKey)
        IN  /\ req[r].pc = "done"
            /\ req[r].source = "cache"
            /\ e # NoEntry
            /\ req[r].data = e.data
            /\ KeyStateAt(e, req[r].currentTime) = "FRESH"
            /\ KeyStateAt(e, clock) = "STALE"

(* C17: the step in which the geocoder answers a request with zero matches *)
(* returns 404 without a record; no conditions call and no put was or is   *)
(* made for that request, and both stores stay as they were; a 404 is      *)
(* returned in no other step.                                              *)
NotFoundStopsPipeline ==
    [][\A r \in Req :
         /\ AppGeoReturn(r, [kind |-> "none"])
            => /\ req'[r].pc = "done"
               /\ req'[r].status = 404
               /\ req'[r].source = "none"
               /\ req'[r].data = NoData
               /\ req'[r].wxCalls = 0
               /\ req'[r].puts = 0
               /\ firestoreDocs' = firestoreDocs
               /\ weatherCache' = weatherCache
         /\ (Completes(r) /\ req'[r].status = 404)
            => /\ req[r].pc = "geo"
               /\ req'[r].geoCalls = 1
               /\ req'[r].wxCalls = 0
               /\ req'[r].puts = 0]_vars

\* a named city the geocoder did not find: 404 and still no entry
CityNotFound ==
    \E r \in Req :
        /\ variant = "app"
        /\ req[r].pc = "done"
        /\ req[r].status = 404
        /\ req[r].cacheKey # <<>>
        /\ req[r].geoCalls = 1
        /\ req[r].wxCalls = 0
        /\ firestoreDocs[req[r].cacheKey] = NoEntry

\* the ways a conditions call fails: the fetch throws, the status is not a
\* success, the payload lacks current/daily
ConditionsFailures ==
    {[kind |-> "throw"], [kind |-> "notok"], [kind |-> "malformed"]}

(* C18: a request waiting for the conditions call gets the same response   *)
(* (status and error text) whichever of the three ways the call fails,     *)
(* and that response is neither a 404 nor a success.                       *)
UpstreamUnavailableOneResponse ==
    \A r \in Req :
        req[r].pc = "weather"
        => \A f, g \in ConditionsFailures :
              /\ AfterWeather(req[r], f).status
                    = AfterWeather(req[r], g).status
              /\ AfterWeather(req[r], f).error = AfterWeather(req[r], g).error
              /\ AfterWeather(req[r], f).status \notin {200, 404}

\* what a caller sees of an error response
Outward(q) == <<q.status, q.error>>

\* the responses the handler of request q gives when the upstream reports
\* that it knows no such city: no geocoding match (route.ts), a 4xx of the
\* external API ([city].ts), its 400 (server.js)
NotFoundResponses(q) ==
    IF variant = "app" THEN {Outward(AfterGeo(q, [kind |-> "none"]))}
    ELSE IF variant = "pages"
    THEN {Outward(AfterFetch(q, [kind |-> "4xx"]))}
    ELSE {Outward(FailedDetail(q, [kind |-> "400"]))}

\* the responses it gives when the upstream call fails: the conditions
\* call fails (route.ts), the last attempt ends in a 5xx or a network error
\* ([city].ts), axios rejects without a response (server.js)
UnavailableResponses(q) ==
    IF variant = "app"
    THEN {Outward(AfterWeather(q, f)) : f \in ConditionsFailures}
    ELSE IF variant = "pages"
    THEN {Outward(AfterFetch(q, [kind |-> "5xx"])), Outward(NextAttempt(q))}
    ELSE {Outward(FailedDetail(q, [kind |-> "throw"]))}

\* the responses already given to requests rejected for their city
InvalidInputResponses ==
    {Outward(req[p]) : p \in {p \in Req : /\ req[p].pc = "done"
                                         /\ req[p].status = 400}}

\* request q waits for its last upstream answer
AtLastUpstreamAnswer(q) ==
    \/ variant = "app" /\ q.pc \in {"geo", "weather"}
    \/ variant = "pages" /\ q.pc = "fetch" /\ q.i = maxRetries - 1
    \/ variant = "express" /\ q.pc = "axios"

(* C19: in each handler the responses for InvalidInput, for NotFound and   *)
(* for UpstreamUnavailable are pairwise different in status or error text, *)
(* so that no response can stand for two of the kinds.                     *)
DistinctResponsePerErrorKind ==
    \A r \in Req :
        AtLastUpstreamAnswer(req[r])
        => /\ NotFoundResponses(req[r]) \cap UnavailableResponses(req[r]) = {}
           /\ NotFoundResponses(req[r]) \cap InvalidInputResponses = {}
           /\ UnavailableResponses(req[r]) \cap InvalidInputResponses = {}

\* this step issues a further attempt of an upstream call that failed
RetriesNow(r) ==
    /\ req[r].pc \in {"fetch", "backoff"}
    /\ req'[r].pc = "fetch"
    /\ req'[r].wxCalls = req[r].wxCalls + 1

\* this step reports to the client that the upstream call failed
ReportsFailureNow(r) ==
    /\ Completes(r)
    /\ InUpstream(req[r])
    /\ req'[r].status # 200

\* attempts made of the upstream call that failed last
AttemptsOfFailedCall(p, q) ==
    IF p.pc = "geo" THEN q.geoCalls ELSE q.wxCalls

(* C20: every further attempt of a failed upstream call is issued after a  *)
(* wait of 2^i seconds (1 s, 2 s, 4 s, ...) that follows failed attempt i, *)
(* and a failure is reported to the client only after the call has been    *)
(* retried: maxRetries attempts in the pages handler, more than one        *)
(* attempt in the other handlers.                                          *)
RetryWithBackoffBeforeFailing ==
    [][\A r \in Req :
         /\ RetriesNow(r)
            => /\ req[r].pc = "backoff"
               /\ req[r].wait = (2 ^ req[r].i) * 1000
               /\ req'[r].i = req[r].i + 1
         /\ ReportsFailureNow(r)
            => IF variant = "pages"
               THEN AttemptsOfFailedCall(req[r], req'[r]) = maxRetries
               ELSE AttemptsOfFailedCall(req[r], req'[r]) >= 2]_vars

\* the integer weather codes an upstream payload is tried with
CodeRange == (0 - 1) .. 100

(* C21: the description of every integer weather code is the text of the   *)
(* table when the code is in WEATHER_CODE_MAP (0 gives "Clear Sky") and    *)
(* "Unknown Condition" otherwise; a conditions payload with an unknown     *)
(* code is answered like any other (no error response, the record goes to  *)
(* the store put when there is a store), and the entry the put leaves has  *)
(* the description that was computed.                                      *)
WeatherCodeMappingTotal ==
    [][\A r \in Req :
         /\ \A p \in Payloads :
              AppWeatherReturn(r, [kind |-> "ok", current |-> p])
              => /\ \A code \in CodeRange :
                      /\ code \in WEATHER_CODES
                         => /\ Description(code) = WEATHER_CODE_MAP(code)
                            /\ Description(code) # "Unknown Condition"
                      /\ code \notin WEATHER_CODES
                         => Description(code) = "Unknown Condition"
                 /\ Description(0) = "Clear Sky"
                 /\ req'[r].error = "none"
                 /\ req'[r].status \in {0, 200}
                 /\ req'[r].data.description =
                       (IF p.weather_code = 0 THEN "Clear Sky"
                        ELSE "Unknown Condition")
                 /\ (req[r].db /\ req[r].cacheKey # <<>>)
                    <=> req'[r].pc = "setDoc"
                 /\ req'[r].pc \in {"setDoc", "done"}
         /\ AppSetDocReturn(r, FALSE)
            => /\ firestoreDocs'[req[r].cacheKey].data = req[r].data
               /\ req'[r].status = 200
               /\ req'[r].data = req[r].data]_vars

\* a record with an unknown weather code, returned and cached
UnknownCodeCached ==
    \E r \in Req :
        /\ req[r].pc = "done"
        /\ req[r].status = 200
        /\ req[r].source = "api"
        /\ req[r].data.description = "Unknown Condition"
        /\ firestoreDocs[req[r].cacheKey] # NoEntry
        /\ firestoreDocs[req[r].cacheKey].data = req[r].data

(* C22: the city text sent with every upstream call is the encoded form   *)
(* of the trimmed raw city (in server.js, of the trimmed lower-case city), *)
(* so it carries no whitespace at its start or end.                        *)
UpstreamGetsTrimmedCity ==
    \A r \in Req :
        InUpstream(req[r])
        => /\ req[r].query = encodeURIComponent(Trim(req[r].city))
           /\ req[r].query # <<>>
              => /\ req[r].query[1] \notin {"%20", "%09"}
                 /\ req[r].query[Len(req[r].query)] \notin {"%20", "%09"}

(* C23: in the pages handler a request makes at most maxRetries (3) fetch  *)
(* attempts; a successful response is answered at once; a 4xx response     *)
(* ends the request with 502 without another attempt; another attempt is   *)
(* made only after a thrown fetch or a 5xx response; and when the loop     *)
(* ends without an ok response the answer is 502 and the cache is left as  *)
(* it was.                                                                 *)
BoundedRetryTransientOnly ==
    [][\A r \in Req :
         variant = "pages"
         => /\ req'[r].wxCalls <= maxRetries
            /\ req'[r].i < maxRetries
            /\ \A b \in ExternalBodies :
                 PagesFetchReturn(r, [kind |-> "ok", body |-> b])
                 => /\ req'[r].pc = "done"
                    /\ req'[r].status = 200
                    /\ req'[r].wxCalls = req[r].wxCalls
            /\ PagesFetchReturn(r, [kind |-> "4xx"])
               => /\ req'[r].pc = "done"
                  /\ req'[r].status = 502
                  /\ req'[r].wxCalls = req[r].wxCalls
            /\ RetriesNow(r)
               => /\ \/ req[r].pc = "backoff"
                     \/ PagesFetchReturn(r, [kind |-> "5xx"])
                  /\ req[r].wxCalls < maxRetries
            /\ (Completes(r) /\ req'[r].status = 502)
               => /\ weatherCache' = weatherCache
                  /\ req'[r].puts = 0
                  /\ \/ PagesFetchReturn(r, [kind |-> "4xx"])
                     \/ req'[r].wxCalls = maxRetries]_vars

\* one request given up after three attempts, one after a single 4xx
GaveUpAfterThreeAndAfterOne ==
    \E r1, r2 \in Req :
        /\ variant = "pages"
        /\ req[r1].pc = "done" /\ req[r1].status = 502
        /\ req[r1].wxCalls = maxRetries
        /\ req[r2].pc = "done" /\ req[r2].status = 502
        /\ req[r2].wxCalls = 1
        /\ \A k \in Keys : weatherCache[k] = NoEntry

\* this step is the arrival of a GET request of r with header value k
ArrivesWithKey(r, k) ==
    \E c \in RawCities :
        \/ \E e \in BOOLEAN : AppStart(r, k, c, e)
        \/ PagesStart(r, "GET", k, c)
        \/ ExpressStart(r, k, c)

(* C24: in every variant a GET request whose X-API-Key header is missing   *)
(* or differs from the configured client token, also when no token is      *)
(* configured, is answered 401 as it arrives, and no cache read, upstream  *)
(* call or cache write is made for it.                                     *)
AuthGatesEverything ==
    [][\A r \in Req : \A k \in ClientKeys :
         (/\ req[r].pc = "idle"
          /\ req'[r].pc # "idle"
          /\ k = "none" \/ k # secretToken
          /\ ArrivesWithKey(r, k))
         => /\ req'[r].pc = "done"
            /\ req'[r].status = 401
            /\ req'[r].gets = 0
            /\ req'[r].geoCalls = 0
            /\ req'[r].wxCalls = 0
            /\ req'[r].puts = 0
            /\ firestoreDocs' = firestoreDocs
            /\ weatherCache' = weatherCache]_vars

ExpressMissPopulatesCache ==
    [][\A r \in Req : \A b \in ExpressBodies :
         (/\ req[r].pc = "axios"
          /\ ExpressAxiosReturn(r, [kind |-> "ok", body |-> b]))
         => LET k == req[r].cacheKey
                now == req[r].currentTime
            IN  /\ req'[r].pc = "done"
                /\ req'[r].status = 200
                /\ weatherCache'[k] # NoEntry
                /\ weatherCache'[k].expiry = now + 300000
                /\ weatherCache'[k].data = req'[r].data
                /\ \A t \in Times :
                     (now <= t /\ t < now + 300000)
                     => ExpressFresh(weatherCache'[k], t)]_vars

\* the handler of request r is waiting on a store call, an upstream call or
\* a backoff timer
Pending(r) == req[r].pc \notin {"idle", "done"}

\* q carries one outcome: a record with provenance, or one error
OneOutcome(q) ==
    \/ /\ q.status = 200 /\ q.source # "none" /\ q.data # NoData
       /\ q.error = "none"
    \/ /\ q.status # 200 /\ q.source = "none" /\ q.data = NoData
       /\ q.error # "none"

\* C27: provided every store call and every upstream call eventually
\* returns or throws, every invocation of the handler eventually produces
\* an outcome, on every path (store failures and the retry loop included);
\* the outcome is one record with provenance or one error, and nothing
\* further is produced for the invocation once it has answered
EveryRequestAnswersOnce ==
    /\ \A r \in Req : Pending(r) ~> (req[r].pc = "done")
    /\ [][\A r \in Req :
            /\ Completes(r) => OneOutcome(req'[r])
            /\ req[r].pc = "done"
               => \/ req'[r] = IdleReq
                  \/ /\ req'[r].pc = "done"
                     /\ Outward(req'[r]) = Outward(req[r])
                     /\ req'[r].source = req[r].source
                     /\ req'[r].data = req[r].data]_vars

\* C27 witness: two invocations have answered, one after three failed
\* attempts of the retry loop and one after a single attempt
AnsweredAfterRetriesAndDirectly ==
    \E r1 \in Req, r2 \in Req :
        /\ req[r1].pc = "done" /\ req[r1].wxCalls = maxRetries
        /\ req[r1].status = 502
        /\ req[r2].pc = "done" /\ req[r2].wxCalls = 1
        /\ req[r2].status = 200 /\ req[r2].source = "api"

\* C28: whenever a response is tagged "cache" for a request with request
\* time now, the lookup of that request found an entry for its key with
\* now - storedAt < TTL and served that entry's record; and every entry is
\* written by a request for that key and stamped with the writer's own
\* request time, which is an instant the clock has shown, so the writer's
\* request time was less than one TTL before now
CacheImpliesFresh ==
    [][/\ \A r \in Req :
            (Completes(r) /\ req'[r].source = "cache")
            => LET k == req'[r].cacheKey
                   e == StoreOf(k)
               IN  /\ ReadsNow(r)
                   /\ e # NoEntry
                   /\ req'[r].currentTime - StoredAtMs(e) < TTL
                   /\ req'[r].data = e.data
       /\ \/ firestoreDocs' = firestoreDocs /\ weatherCache' = weatherCache
          \/ \A k \in Keys :
                StoreOfNext(k) # StoreOf(k)
                => \E w \in Req :
                      /\ ActsNow(w)
                      /\ req[w].cacheKey = k
                      /\ StoreOfNext(k) # NoEntry
                      /\ StoredAtMs(StoreOfNext(k)) = req[w].currentTime
                      /\ req[w].currentTime <= clock]_vars

\* C28 witness: a request answered from the cache with the entry that an
\* earlier request wrote, whose request time lies less than one TTL before
ServedEntryOfRecentWriter ==
    \E w \in Req, r \in Req :
        /\ req[w].pc = "done" /\ req[w].source = "api" /\ req[w].puts = 1
        /\ req[r].pc = "done" /\ req[r].source = "cache"
        /\ req[r].cacheKey = req[w].cacheKey
        /\ StoreOf(req[r].cacheKey) # NoEntry
        /\ StoredAtMs(StoreOf(req[r].cacheKey)) = req[w].currentTime
        /\ req[r].data = req[w].data
        /\ req[r].currentTime - req[w].currentTime > 0
        /\ req[r].currentTime - req[w].currentTime < TTL

\* C29: a request answered from the cache leaves both stores as they are
\* (the entry keeps its storedAt) and makes no put; and a lookup that finds
\* an entry at or after storedAt + TTL is not answered from the cache but
\* goes to the upstream fetch, whatever was served from the entry before
HitsDoNotExtendLifetime ==
    [][\A r \in Req :
         LET k == req'[r].cacheKey
             e == StoreOf(k)
         IN  /\ (Completes(r) /\ req'[r].source = "cache")
                => /\ firestoreDocs' = firestoreDocs
                   /\ weatherCache' = weatherCache
                   /\ StoredAtMs(StoreOfNext(k)) = StoredAtMs(e)
                   /\ req'[r].puts = 0
             /\ (/\ ReadsNow(r)
                 /\ e # NoEntry
                 /\ req'[r].currentTime >= StoredAtMs(e) + TTL)
                => /\ req'[r].source # "cache"
                   /\ InUpstream(req'[r])
                   /\ req'[r].geoCalls + req'[r].wxCalls = 1]_vars

\* C29 witness: an entry was served from the cache at the last instant of
\* its life, still carries the stamp of its writer, and has expired now
HitThenExpiredOnSchedule ==
    \E r \in Req :
        /\ req[r].pc = "done" /\ req[r].source = "cache"
        /\ StoreOf(req[r].cacheKey) # NoEntry
        /\ req[r].currentTime > StoredAtMs(StoreOf(req[r].cacheKey))
        /\ req[r].currentTime < StoredAtMs(StoreOf(req[r].cacheKey)) + TTL
        /\ clock >= StoredAtMs(StoreOf(req[r].cacheKey)) + TTL
        /\ KeyStateAt(StoreOf(req[r].cacheKey), clock) = "STALE"

\* C30: for every key, under any interleaving of concurrent requests, each
\* replacement of the key's entry has a storedAt greater than or equal to
\* that of the entry it replaces
StoredAtNeverGoesBackwards ==
    [][\/ firestoreDocs' = firestoreDocs /\ weatherCache' = weatherCache
       \/ \A k \in Keys :
             (StoreOf(k) # NoEntry /\ StoreOfNext(k) # StoreOf(k))
             => /\ StoreOfNext(k) # NoEntry
                /\ StoredAtMs(StoreOfNext(k)) >= StoredAtMs(StoreOf(k))]_vars

\* the key that the server computes for a click on the history entry of
\* record data: the page sends data.cityName, trimmed and encoded
HistoryRefetchKey(data) ==
    CacheKey(searchParamsGet(WeatherUrl(data.cityName)))

\* C31: when a search is answered from upstream and its record is stored,
\* the key under which the record is stored is the key that a re-fetch by
\* the record's cityName looks up, so that the re-fetch finds this record
HistoryRefetchHitsCache ==
    [][\A r \in Req :
         (/\ variant = "app"
          /\ FetchSucceedsNow(r)
          /\ req'[r].puts = 1
          /\ ~req'[r].putErr)
         => LET k == HistoryRefetchKey(req'[r].data)
            IN  /\ k = req'[r].cacheKey
                /\ firestoreDocs'[k] # NoEntry
                /\ firestoreDocs'[k].data.cityName
                      = req'[r].data.cityName]_vars

\* texts that are empty or all whitespace
BlankTexts == {s \in RawCities : Trim(s) = <<>>}

\* page state q shows the blank-input message, has the requests in flight,
\* the weather and the history of p, and is not loading
RejectedWithoutRequest(p, q) ==
    /\ q.error = "Please enter a city name."
    /\ q.calls = p.calls
    /\ ~q.loading
    /\ q.weather = p.weather
    /\ q.searchedCities = p.searchedCities

\* C32: before and after every step of the page, fetchWeather called with
\* an empty or all-whitespace city sets the error message, issues no
\* network request and leaves loading false, weather and searchedCities
\* unchanged; and so does every submit of the form with an empty or
\* all-whitespace input
BlankInputRejectedWithoutRequest ==
    [][/\ \A s \in BlankTexts :
            /\ RejectedWithoutRequest(page, fetchWeather(page, s))
            /\ RejectedWithoutRequest(page', fetchWeather(page', s))
       /\ (Submit /\ page.city \in BlankTexts)
          => RejectedWithoutRequest(page, page')]_vars

\* C32 witness: a blank submit was rejected while an earlier result and the
\* history stayed on display
BlankRejectedOverResult ==
    /\ page.error = "Please enter a city name."
    /\ page.city = <<>>
    /\ page.weather # NoData
    /\ page.searchedCities # <<>>
    /\ ~page.loading
    /\ InFlight(page) = {}

\* entries e and f are for the same city, ignoring case
SameCity(e, f) == ToLowerCase(e.cityName) = ToLowerCase(f.cityName)

\* new is old with the record data moved or added to its head: the other
\* entries of old are all kept, and in the order they had
MovedToHead(old, new, data) ==
    LET others == {i \in 1..Len(old) : ~SameCity(old[i], data)}
    IN  /\ Len(new) = 1 + Cardinality(others)
        /\ new[1] = data
        /\ \A i \in others : \E a \in 2..Len(new) : new[a] = old[i]
        /\ \A i \in others, j \in others :
              i < j => \E a \in 2..Len(new), b \in 2..Len(new) :
                          a < b /\ new[a] = old[i] /\ new[b] = old[j]

\* C33: after no step does searchedCities hold two entries whose cityName
\* is equal ignoring case; and each successful response puts the entry of
\* its city at the head of the list and keeps all other entries in their
\* previous relative order
HistoryUniqueMostRecentFirst ==
    [][\/ /\ page'.calls = page.calls
          /\ page'.searchedCities = page.searchedCities
       \/ /\ \A i \in 1..Len(page'.searchedCities) :
             \A j \in 1..Len(page'.searchedCities) :
                SameCity(page'.searchedCities[i], page'.searchedCities[j])
                => i = j
          /\ \A c \in Calls : \A d \in WeatherRecords :
               (/\ page.calls[c] # "free"
                /\ page'.calls[c] = "free"
                /\ ResponseArrives(c, [kind |-> "ok", data |-> d]))
               => MovedToHead(page.searchedCities, page'.searchedCities,
                              d)]_vars

\* C33 witness: a history of three cities headed by a record served from
\* the cache, which is the one on display
ThreeCitiesLatestFirst ==
    /\ Len(page.searchedCities) = 3
    /\ page.searchedCities[1] = page.weather
    /\ page.weather.source = "cache"

\* this step is the settling of network call c
SettlesNow(c) == page.calls[c] # "free" /\ page'.calls[c] = "free"

\* C34: every invocation of fetchWeather ends with loading = false: the
\* step in which its network call settles leaves loading false, whether
\* the response is a success, an error response or a thrown error; and the
\* invocations that return before the fetch (blank input, missing client
\* token) leave loading false as well
LoadingAlwaysClears ==
    [][/\ \A c \in Calls : SettlesNow(c) => ~page'.loading
       /\ \A s \in RawCities :
            (s \in BlankTexts \/ ~page.token)
            => ~fetchWeather(page, s).loading
       /\ (Submit /\ ~page.token) => ~page'.loading]_vars

\* C34 witness: a search ended with an HTTP error status and nothing is in
\* flight or loading
LoadingClearedAfterHttpError ==
    /\ page.error = "HTTP error! Status: 500"
    /\ ~page.loading
    /\ InFlight(page) = {}

\* the responses with which a search fails
Failures == {out \in Responses : out.kind # "ok"}

LoadingReflectsInFlight ==
    InFlight(page) # {} => page.loading

\* C37: a response to a request started before a reset never repopulates
\* the page: when it arrives after Clear View or after the full reset, the
\* displayed weather stays as it is, and when it arrives after the full
\* reset, searchedCities stays as it is too
ResetStaysReset ==
    [][\A c \in Calls :
         (SettlesNow(c) /\ page.calls[c] \in {"preView", "preFull"})
         => /\ page'.weather = page.weather
            /\ page.calls[c] = "preFull"
               => page'.searchedCities = page.searchedCities]_vars

\* C38: getTimestampInMs returns toMillis() for a Firestore Timestamp, the
\* value itself for a number and 0 for anything else; so an entry whose
\* timestamp is missing or of another type fails the freshness test at
\* every realistic now (at least one TTL after the epoch), while the test
\* of the other entries is now - stored instant < TTL
TimestampConversionAtBoundary ==
    \A k \in Keys :
        firestoreDocs[k] # NoEntry =>
           LET ts == firestoreDocs[k].timestamp
               timestampMs == getTimestampInMs(ts)
           IN  IF ts.kind \in {"Timestamp", "number"}
               THEN /\ timestampMs = ts.ms
                    /\ IsFresh(clock, timestampMs)
                         <=> clock - ts.ms < CACHE_DURATION_MS
               ELSE /\ timestampMs = 0
                    /\ clock >= CACHE_DURATION_MS
                         => ~IsFresh(clock, timestampMs)

\* C38 witness: at a realistic now the store holds an entry without a
\* timestamp, which is expired, next to an entry with a Firestore
\* Timestamp younger than the TTL, which is fresh
MissingStampExpiredBesideFresh ==
    \E k1 \in Keys, k2 \in Keys :
        /\ clock >= CACHE_DURATION_MS
        /\ firestoreDocs[k1] # NoEntry
        /\ firestoreDocs[k1].timestamp.kind = "missing"
        /\ ~IsFresh(clock, getTimestampInMs(firestoreDocs[k1].timestamp))
        /\ firestoreDocs[k2] # NoEntry
        /\ firestoreDocs[k2].timestamp.kind = "Timestamp"
        /\ IsFresh(clock, getTimestampInMs(firestoreDocs[k2].timestamp))

====
